---- MODULE Spec2Model ----
(***************************************************************************)
(* State-machine model of XVIZLoaderInterface                              *)
(* (modules/core/src/loaders/xviz-loader-interface.js): the attribute      *)
(* store with its generation counter, the animation-frame notification     *)
(* scheduler, the memoized selectors and the time controller.              *)
(***************************************************************************)
EXTENDS Integers, Sequences, FiniteSets, TLC

\* ------------------------------------------------------------------ bounds
\* _version is capped: a state-changing set is not offered beyond it.
MaxVersion == 3
\* Timestamps, start_time and end_time range over 0..MaxTime.
MaxTime == 2
\* TIME_WINDOW ranges over 0..MaxTimeWindow.
MaxTimeWindow == 1
\* The listener list holds at most MaxListeners registrations.
MaxListeners == 2
\* Stream settings range over 0..MaxSetting.
MaxSetting == 2
\* At most MaxCallbacks callbacks are registered per event type.
MaxCallbacks == 2
\* At most MaxEmits emits run to their end.
MaxEmits == 2

\* --------------------------------------------------------------- JS values
\* A JS value is a record with a kind; objects carry a reference (identity).
Undefined == [kind |-> "undefined"]
Null == [kind |-> "null"]
NaN == [kind |-> "NaN"]
Num(n) == [kind |-> "number", num |-> n]
EmptyMap == [n \in {} |-> 0]
\* An object holding own enumerable properties `map` (name -> number).
Obj(r, m) == [kind |-> "object", ref |-> r, map |-> m]

\* Strict equality (===): primitives by value, objects by reference, NaN never.
StrictEq(a, b) ==
  /\ a.kind = b.kind
  /\ CASE a.kind = "number" -> a.num = b.num
       [] a.kind = "object" -> a.ref = b.ref
       [] a.kind = "NaN" -> FALSE
       [] OTHER -> TRUE

\* Truthiness of a JS value.
Truthy(a) ==
  CASE a.kind = "number" -> a.num # 0
    [] a.kind = "object" -> TRUE
    [] OTHER -> FALSE

\* Number.isFinite
IsFinite(a) == a.kind = "number"

Min(a, b) == IF a <= b THEN a ELSE b
Max(a, b) == IF a >= b THEN a ELSE b

\* math.gl clamp(value, min, max) = Math.max(min, Math.min(max, value)), called
\* with finite min and max; Math.min/Math.max of a non-number give NaN.
clamp(value, min, max) ==
  IF value.kind = "number"
    THEN Num(Max(min.num, Min(max.num, value.num)))
    ELSE NaN

\* ------------------------------------------------------------------- state
Keys == {"timestamp", "lookAhead", "streamSettings", "metadata",
         "logSynchronizer", "streams"}
StreamNames == {"a", "b"}
ListenerIds == {"L1", "L2"}
EventTypes == {"ready", "update"}
CallbackIds == {"cb1", "cb2"}
EventArgs == {"p1", "p2"}
SelectorNames == {"getStreams", "getLogStartTime", "getLogEndTime",
                  "getCurrentFrame", "getTimeSeries"}
\* The single log synchronizer object of the run.
SyncObj == [kind |-> "object", ref |-> 0]

NoTimer == "null"
Handle == "handle"

VARIABLES
  state,          \* this.state: key -> value (absent keys read as undefined)
  _version,       \* this._version
  _updateTimer,   \* this._updateTimer: NoTimer or the animation-frame handle
  listeners,      \* this.listeners
  cache,          \* per selector: the memoized inputs and output
  TIME_WINDOW,    \* getXVIZConfig().TIME_WINDOW
  synchronizer,   \* the log synchronizer's retained time and look-ahead
  rafQueue,       \* callbacks the host holds for the next animation frame
  pc,             \* "idle", or "listener" while a listener's body runs
  flushLen,       \* forEach: the list's length when the flush began
  flushIdx,       \* forEach: index of the listener now running
  lastOp,         \* history: the latest call and its arguments
  lastRet,        \* history: what the latest call returned
  executed,       \* history: combinators the latest call executed
  syncCalls,      \* history: synchronizer calls of the latest call, in order
  calls,          \* history: listener invocations of the current flush
  flushListeners, \* history: the listener list when the latest tick fired
  burstWrites,    \* history: state-changing sets since the last tick fired
  burstArms,      \* history: requestAnimationFrame calls since the last tick fired
  armCount,       \* history: requestAnimationFrame calls so far
  flushCount,     \* history: ticks fired so far
  callbacks,      \* this.callbacks: event type -> array of callbacks
  stats,          \* stats.bump: the count per event type
  epc,            \* "idle", or "callback" while an emit's callback runs
  emitType,       \* emit: its eventType
  emitArgs,       \* emit: its eventArgs
  emitIdx,        \* emit: index of the callback now running
  emitCalls,      \* history: callback invocations of the latest emit
  emitSnapshot    \* history: the event type's callbacks when the emit began

storeVars == <<state, _version, _updateTimer, cache, synchronizer, rafQueue,
               burstWrites, burstArms, armCount>>
flushVars == <<pc, flushLen, flushIdx, calls, flushListeners, flushCount>>
emitVars == <<stats, epc, emitType, emitArgs, emitIdx, emitCalls, emitSnapshot>>
vars == <<state, _version, _updateTimer, listeners, cache, TIME_WINDOW,
          synchronizer, rafQueue, pc, flushLen, flushIdx, lastOp, lastRet,
          executed, syncCalls, calls, flushListeners, burstWrites, burstArms,
          armCount, flushCount, callbacks, stats, epc, emitType, emitArgs,
          emitIdx, emitCalls, emitSnapshot>>

\* The part of the loader a handler reads and writes, as one record; the
\* history fields executed and syncCalls start empty at every call.
Store ==
  [state |-> state, _version |-> _version, _updateTimer |-> _updateTimer,
   cache |-> cache, synchronizer |-> synchronizer, rafQueue |-> rafQueue,
   executed |-> {}, syncCalls |-> <<>>,
   burstWrites |-> burstWrites, burstArms |-> burstArms, armCount |-> armCount]

\* The handler's result becomes the next state.
Commit(st) ==
  /\ state' = st.state
  /\ _version' = st._version
  /\ _updateTimer' = st._updateTimer
  /\ cache' = st.cache
  /\ synchronizer' = st.synchronizer
  /\ rafQueue' = st.rafQueue
  /\ executed' = st.executed
  /\ syncCalls' = st.syncCalls
  /\ burstWrites' = st.burstWrites
  /\ burstArms' = st.burstArms
  /\ armCount' = st.armCount

\* get(key)
get(st, key) == st.state[key]

\* set(key, value) with every tick armed, whether or not one is pending.
set_ArmAlways(st, key, value) ==
  IF ~StrictEq(st.state[key], value)
    THEN [st EXCEPT !.state[key] = value,
                    !._version = @ + 1,
                    !._updateTimer = Handle,
                    !.rafQueue = @ + 1,
                    !.burstWrites = @ + 1,
                    !.burstArms = @ + 1,
                    !.armCount = @ + 1]
    ELSE st

\* set(key, value) without the comparison with the stored value.
set_NoCompare(st, key, value) ==
  [st EXCEPT !.state[key] = value,
             !._version = @ + 1,
             !._updateTimer = IF @ = NoTimer THEN Handle ELSE @,
             !.rafQueue = IF st._updateTimer = NoTimer THEN @ + 1 ELSE @,
             !.burstWrites = @ + 1,
             !.burstArms = IF st._updateTimer = NoTimer THEN @ + 1 ELSE @,
             !.armCount = IF st._updateTimer = NoTimer THEN @ + 1 ELSE @]

\* set(key, value)
set(st, key, value) ==
  IF ~StrictEq(st.state[key], value)
    THEN [st EXCEPT !.state[key] = value,
                    !._version = @ + 1,
                    !._updateTimer = IF @ = NoTimer THEN Handle ELSE @,
                    !.rafQueue = IF st._updateTimer = NoTimer THEN @ + 1 ELSE @,
                    !.burstWrites = @ + 1,
                    !.burstArms = IF st._updateTimer = NoTimer THEN @ + 1 ELSE @,
                    !.armCount = IF st._updateTimer = NoTimer THEN @ + 1 ELSE @]
    ELSE st

\* -------------------------------------------------------- object identity
\* References held by a value, its own and those of the objects it holds.
RECURSIVE RefsOf(_)
RefsOf(v) ==
  IF v.kind # "object"
    THEN {}
    ELSE {v.ref} \cup
         UNION {RefsOf(v[f]) : f \in DOMAIN v \cap {"streams", "settings", "metadata"}}

UsedRefs(st) ==
  UNION {RefsOf(st.state[k]) : k \in Keys}
  \cup UNION {RefsOf(st.cache[n].output) : n \in SelectorNames}
  \cup UNION {UNION {RefsOf(st.cache[n].inputs[i]) : i \in DOMAIN st.cache[n].inputs}
               : n \in SelectorNames}

\* The reference of a newly created object: one no live object holds.
FreshRef(st) ==
  LET used == UsedRefs(st)
  IN CHOOSE r \in 1..(Cardinality(used) + 1) : r \notin used

\* A second new object created by the same expression.
FreshRef2(st) ==
  LET used == UsedRefs(st) \cup {FreshRef(st)}
  IN CHOOSE r \in 1..(Cardinality(used) + 1) : r \notin used

\* Own properties of a value under object spread ({...undefined} is {}).
OwnProps(v) == IF v.kind = "object" THEN v.map ELSE EmptyMap

\* {...a, ...b}
Spread(a, b) ==
  [n \in (DOMAIN a) \cup (DOMAIN b) |-> IF n \in DOMAIN b THEN b[n] ELSE a[n]]

\* -------------------------------------------------------------- selectors
\* createSelector (utils/create-selector): evaluate the inputs, compare them
\* element-wise with the previous inputs, and run the combinator only on the
\* first invocation or when an input differs.  `in` holds the evaluated
\* inputs, `res` the combinator's result on them ([st, ret]).
createSelector(st, name, in, res) ==
  LET c == st.cache[name]
      hit == /\ c.valid
             /\ \A i \in 1..Len(in) : StrictEq(c.inputs[i], in[i])
  IN IF hit
       THEN [st |-> st, ret |-> c.output]
       ELSE [st |-> [res.st EXCEPT
                       !.cache[name] = [valid |-> TRUE, inputs |-> in, output |-> res.ret],
                       !.executed = @ \cup {name}],
             ret |-> res.ret]

\* The combinator of getStreams keeping every stream the settings mention.
getStreamsCombinator_KeepDisabled(st, streamSettings, streams) ==
  IF ~Truthy(streamSettings) \/ ~Truthy(streams)
    THEN streams
    ELSE Obj(FreshRef(st),
             [n \in {m \in DOMAIN streams.map : m \in DOMAIN streamSettings.map}
                |-> streams.map[n]])

\* The combinator of getStreams.
getStreamsCombinator(st, streamSettings, streams) ==
  IF ~Truthy(streamSettings) \/ ~Truthy(streams)
    THEN streams
    ELSE Obj(FreshRef(st),
             [n \in {m \in DOMAIN streams.map :
                       m \in DOMAIN streamSettings.map /\ streamSettings.map[m] # 0}
                |-> streams.map[n]])

\* getStreams declaring streamSettings as its only input.
getStreams_OneInput(st) ==
  LET in == <<get(st, "streamSettings")>>
  IN createSelector(st, "getStreams", in,
                    [st |-> st,
                     ret |-> getStreamsCombinator(st, in[1], get(st, "streams"))])

getStreams(st) ==
  LET in == <<get(st, "streamSettings"), get(st, "streams")>>
  IN createSelector(st, "getStreams", in,
                    [st |-> st, ret |-> getStreamsCombinator(st, in[1], in[2])])

\* metadata && metadata.start_time && metadata.start_time + TIME_WINDOW
getLogStartTimeCombinator(metadata) ==
  IF ~Truthy(metadata) THEN metadata
  ELSE IF ~Truthy(metadata.start_time) THEN metadata.start_time
  ELSE Num(metadata.start_time.num + TIME_WINDOW)

getLogStartTime(st) ==
  LET in == <<get(st, "metadata")>>
  IN createSelector(st, "getLogStartTime", in,
                    [st |-> st, ret |-> getLogStartTimeCombinator(in[1])])

\* metadata && metadata.end_time
getLogEndTimeCombinator(metadata) ==
  IF ~Truthy(metadata) THEN metadata ELSE metadata.end_time

getLogEndTime(st) ==
  LET in == <<get(st, "metadata")>>
  IN createSelector(st, "getLogEndTime", in,
                    [st |-> st, ret |-> getLogEndTimeCombinator(in[1])])

\* The log synchronizer: setTime and setLookAheadTimeOffset retain their
\* argument; getCurrentFrame(streamSettings) builds a frame from what is retained.
syncSetTime(st, timestamp) ==
  [st EXCEPT !.synchronizer.time = timestamp,
             !.syncCalls = Append(@, [method |-> "setTime", arg |-> timestamp])]

syncSetLookAheadTimeOffset(st, lookAhead) ==
  [st EXCEPT !.synchronizer.lookAhead = lookAhead,
             !.syncCalls = Append(@, [method |-> "setLookAheadTimeOffset",
                                      arg |-> lookAhead])]

syncGetCurrentFrame(st, streamSettings) ==
  [st |-> [st EXCEPT !.syncCalls = Append(@, [method |-> "getCurrentFrame",
                                               arg |-> streamSettings])],
   ret |-> [kind |-> "object", ref |-> FreshRef(st),
            time |-> st.synchronizer.time,
            lookAhead |-> st.synchronizer.lookAhead,
            settings |-> streamSettings]]

\* The combinator of getCurrentFrame without the look-ahead pushed.
getCurrentFrameCombinator_NoLookAhead(st, logSynchronizer, streamSettings, timestamp, lookAhead) ==
  IF Truthy(logSynchronizer) /\ IsFinite(timestamp)
    THEN syncGetCurrentFrame(syncSetTime(st, timestamp), streamSettings)
    ELSE [st |-> st, ret |-> Null]

\* The combinator of getCurrentFrame.
getCurrentFrameCombinator(st, logSynchronizer, streamSettings, timestamp, lookAhead) ==
  IF Truthy(logSynchronizer) /\ IsFinite(timestamp)
    THEN syncGetCurrentFrame(
           syncSetLookAheadTimeOffset(syncSetTime(st, timestamp), lookAhead),
           streamSettings)
    ELSE [st |-> st, ret |-> Null]

getCurrentFrame(st) ==
  LET streams == getStreams(st)
      in == <<get(st, "logSynchronizer"), get(st, "streamSettings"),
              get(st, "timestamp"), get(st, "lookAhead"), streams.ret>>
  IN createSelector(streams.st, "getCurrentFrame", in,
                    getCurrentFrameCombinator(streams.st, in[1], in[2], in[3], in[4]))

\* utils/metrics-helper getTimeSeries({metadata, streams}): a pure function
\* of its two arguments that builds a new result.
getTimeSeriesHelper(st, metadata, streams) ==
  [kind |-> "object", ref |-> FreshRef(st), metadata |-> metadata, streams |-> streams]

getTimeSeries(st) ==
  LET streams == getStreams(st)
      in == <<get(st, "metadata"), streams.ret>>
  IN createSelector(streams.st, "getTimeSeries", in,
                    [st |-> streams.st,
                     ret |-> getTimeSeriesHelper(streams.st, in[1], in[2])])

\* --------------------------------------------------------- time controller
\* seek(timestamp) writing the timestamp as given, never clamped.
seek_NoClamp(st, timestamp) ==
  LET metadata == get(st, "metadata")
  IN IF Truthy(metadata)
       THEN set(getLogEndTime(getLogStartTime(st).st).st, "timestamp", timestamp)
       ELSE set(st, "timestamp", timestamp)

\* seek(timestamp)
seek(st, timestamp) ==
  LET metadata == get(st, "metadata")
  IN IF Truthy(metadata)
       THEN LET s == getLogStartTime(st)
                e == getLogEndTime(s.st)
                startTime == s.ret
                endTime == e.ret
            IN set(e.st, "timestamp",
                   IF IsFinite(startTime) /\ IsFinite(endTime)
                     THEN clamp(timestamp, startTime, endTime)
                     ELSE timestamp)
       ELSE set(st, "timestamp", timestamp)

\* The boolean false.
False == [kind |-> "boolean", bool |-> FALSE]
\* The outcome of a call that throws new Error('not implemented').
NotImplemented == [kind |-> "error", message |-> "not implemented"]

\* isOpen()
isOpen(st) == [st |-> st, ret |-> False]

\* connect()
connect(st) == [st |-> st, ret |-> NotImplemented]

\* close()
close(st) == [st |-> st, ret |-> NotImplemented]

\* getBufferRange()
getBufferRange(st) == [st |-> st, ret |-> NotImplemented]

\* setLookAhead(lookAhead)
setLookAhead(st, lookAhead) == set(st, "lookAhead", lookAhead)

\* updateStreamSettings(settings) storing the given settings alone.
updateStreamSettings_Replace(st, settings) ==
  set(st, "streamSettings", Obj(FreshRef(st), settings))

\* updateStreamSettings(settings)
updateStreamSettings(st, settings) ==
  LET streamSettings == get(st, "streamSettings")
  IN set(st, "streamSettings",
         Obj(FreshRef(st), Spread(OwnProps(streamSettings), settings)))

\* _setMetadata(metadata) without the final re-seek.
_setMetadata_NoSeek(st, metadata) ==
  LET st1 == set(st, "metadata", metadata)
  IN IF Truthy(metadata.streams) /\ Cardinality(DOMAIN metadata.streams.map) > 0
       THEN set(st1, "streamSettings", metadata.streams)
       ELSE st1

\* _setMetadata(metadata) re-seeking before the metadata is written.
_setMetadata_SeekFirst(st, metadata) ==
  LET timestamp == get(st, "timestamp")
      newTimestamp == IF IsFinite(timestamp) THEN timestamp ELSE metadata.start_time
      st1 == IF IsFinite(newTimestamp) THEN seek(st, newTimestamp) ELSE st
      st2 == set(st1, "metadata", metadata)
  IN IF Truthy(metadata.streams) /\ Cardinality(DOMAIN metadata.streams.map) > 0
       THEN set(st2, "streamSettings", metadata.streams)
       ELSE st2

\* _setMetadata(metadata)
_setMetadata(st, metadata) ==
  LET st1 == set(st, "metadata", metadata)
      st2 == IF Truthy(metadata.streams)
                  /\ Cardinality(DOMAIN metadata.streams.map) > 0
               THEN set(st1, "streamSettings", metadata.streams)
               ELSE st1
      timestamp == get(st2, "timestamp")
      newTimestamp == IF IsFinite(timestamp) THEN timestamp ELSE metadata.start_time
  IN IF IsFinite(newTimestamp) THEN seek(st2, newTimestamp) ELSE st2

\* ------------------------------------------------------------------ inputs
Times == {Num(t) : t \in 0..MaxTime}
\* Arguments of seek and of set('timestamp', ...): also beyond every end_time,
\* and not a number.
SeekInputs == {Num(t) : t \in 0..(MaxTime + 1)} \cup {NaN}
LookAheads == {Num(0), Num(1)}
TimeWindows == 0..MaxTimeWindow
\* Settings objects: stream name -> setting (0 is a disabled stream).
SettingsMaps == UNION {[D -> 0..MaxSetting] : D \in SUBSET StreamNames}
\* Raw stream buffers by stream name.
StreamsMaps == {[n \in StreamNames |-> 1]}

\* The streams field of a metadata object: missing, empty or populated.
MetadataStreams(st, shape) ==
  CASE shape = "missing" -> Undefined
    [] shape = "empty" -> Obj(FreshRef2(st), EmptyMap)
    [] shape = "populated" -> Obj(FreshRef2(st), [n \in {"a"} |-> 1])

\* Metadata objects a connector may deliver, each a new object; a log does
\* not end before it starts.
MetadataInputs(st, S, E, Shapes) ==
  {[kind |-> "object", ref |-> FreshRef(st), start_time |-> se[1],
    end_time |-> se[2], streams |-> MetadataStreams(st, shape)] :
     se \in {x \in S \X E :
               IsFinite(x[1]) /\ IsFinite(x[2]) => x[1].num <= x[2].num},
     shape \in Shapes}

\* Values a caller passes to set(key, value): the stored value again, or another.
SetValues(st, key) ==
  {st.state[key]} \cup
  CASE key = "timestamp" -> SeekInputs
    [] key = "lookAhead" -> LookAheads
    [] key = "logSynchronizer" -> {SyncObj}
    [] key = "streams" -> {Obj(FreshRef(st), m) : m \in StreamsMaps}
    [] OTHER -> {Undefined}

\* ------------------------------------------------------------------- Init
Init ==
  /\ state = [k \in Keys |-> Undefined]
  /\ _version = 0
  /\ _updateTimer = NoTimer
  /\ listeners = <<>>
  /\ cache = [n \in SelectorNames |->
                [valid |-> FALSE, inputs |-> <<>>, output |-> Undefined]]
  /\ TIME_WINDOW \in TimeWindows
  /\ synchronizer = [time |-> Undefined, lookAhead |-> Undefined]
  /\ rafQueue = 0
  /\ pc = "idle"
  /\ flushLen = 0
  /\ flushIdx = 0
  /\ lastOp = [op |-> "constructor"]
  /\ lastRet = Undefined
  /\ executed = {}
  /\ syncCalls = <<>>
  /\ calls = <<>>
  /\ flushListeners = <<>>
  /\ burstWrites = 0
  /\ burstArms = 0
  /\ armCount = 0
  /\ flushCount = 0
  /\ callbacks = [t \in {} |-> <<>>]
  /\ stats = [t \in EventTypes |-> 0]
  /\ epc = "idle"
  /\ emitType = "ready"
  /\ emitArgs = "p1"
  /\ emitIdx = 0
  /\ emitCalls = <<>>
  /\ emitSnapshot = <<>>

\* ---------------------------------------------------------------- actions
\* A call of a handler, by an outside caller (pc = "idle") or from the body
\* of the listener now running (pc = "listener"): its effect st, the record
\* op of the call and the value ret it returns.
\* A call that writes begins below MaxVersion generations.
Call(st, op, ret) ==
  /\ _version < MaxVersion \/ st._version = _version
  /\ Commit(st)
  /\ lastOp' = op
  /\ lastRet' = ret
  /\ UNCHANGED <<listeners, TIME_WINDOW, flushVars, callbacks, emitVars>>

Set(K) ==
  \E key \in K : \E value \in SetValues(Store, key) :
    Call(set(Store, key, value), [op |-> "set", key |-> key, value |-> value], Undefined)

Seek(T) ==
  \E timestamp \in T :
    Call(seek(Store, timestamp), [op |-> "seek", timestamp |-> timestamp], Undefined)

SetLookAhead(L) ==
  \E lookAhead \in L :
    Call(setLookAhead(Store, lookAhead),
         [op |-> "setLookAhead", lookAhead |-> lookAhead], Undefined)

UpdateStreamSettings(M) ==
  \E settings \in M :
    Call(updateStreamSettings(Store, settings),
         [op |-> "updateStreamSettings", settings |-> settings], Undefined)

SetMetadata(S, E, Shapes) ==
  \E metadata \in MetadataInputs(Store, S, E, Shapes) :
    Call(_setMetadata(Store, metadata),
         [op |-> "_setMetadata", metadata |-> metadata], Undefined)

GetStreams ==
  LET r == getStreams(Store) IN Call(r.st, [op |-> "getStreams"], r.ret)

GetLogStartTime ==
  LET r == getLogStartTime(Store) IN Call(r.st, [op |-> "getLogStartTime"], r.ret)

GetLogEndTime ==
  LET r == getLogEndTime(Store) IN Call(r.st, [op |-> "getLogEndTime"], r.ret)

GetCurrentFrame ==
  LET r == getCurrentFrame(Store) IN Call(r.st, [op |-> "getCurrentFrame"], r.ret)

GetTimeSeries ==
  LET r == getTimeSeries(Store) IN Call(r.st, [op |-> "getTimeSeries"], r.ret)

\* setXVIZConfig({TIME_WINDOW}) of @xviz/parser: the global configuration changes.
SetXVIZConfig ==
  /\ \E w \in TimeWindows : w # TIME_WINDOW /\ TIME_WINDOW' = w
  /\ lastOp' = [op |-> "setXVIZConfig"]
  /\ lastRet' = Undefined
  /\ executed' = {}
  /\ syncCalls' = <<>>
  /\ UNCHANGED <<storeVars, listeners, flushVars, callbacks, emitVars>>

IsOpen ==
  LET r == isOpen(Store) IN Call(r.st, [op |-> "isOpen"], r.ret)

Connect ==
  LET r == connect(Store) IN Call(r.st, [op |-> "connect"], r.ret)

Close ==
  LET r == close(Store) IN Call(r.st, [op |-> "close"], r.ret)

GetBufferRange ==
  LET r == getBufferRange(Store) IN Call(r.st, [op |-> "getBufferRange"], r.ret)

\* subscribe(instance)
subscribe(ls, instance) == Append(ls, instance)

\* unsubscribe(instance): findIndex, then splice(index, 1)
unsubscribe(ls, instance) ==
  IF \E i \in 1..Len(ls) : ls[i] = instance
    THEN LET index == CHOOSE i \in 1..Len(ls) :
                        ls[i] = instance /\ \A j \in 1..(i - 1) : ls[j] # instance
         IN SubSeq(ls, 1, index - 1) \o SubSeq(ls, index + 1, Len(ls))
    ELSE ls

Subscribe ==
  \E instance \in ListenerIds :
    /\ Len(listeners) < MaxListeners
    /\ listeners' = subscribe(listeners, instance)
    /\ lastOp' = [op |-> "subscribe", instance |-> instance]
    /\ lastRet' = Undefined
    /\ executed' = {}
    /\ syncCalls' = <<>>
    /\ UNCHANGED <<storeVars, TIME_WINDOW, flushVars, callbacks, emitVars>>

Unsubscribe ==
  \E instance \in ListenerIds :
    /\ listeners' = unsubscribe(listeners, instance)
    /\ lastOp' = [op |-> "unsubscribe", instance |-> instance]
    /\ lastRet' = Undefined
    /\ executed' = {}
    /\ syncCalls' = <<>>
    /\ UNCHANGED <<storeVars, TIME_WINDOW, flushVars, callbacks, emitVars>>

\* listeners.forEach(o => o(this._version)), from index `from` on: the next
\* index below the length taken when forEach began that the list still has is
\* invoked with the generation read at that moment; with none left, forEach ends.
forEachStep(from) ==
  IF from <= flushLen' /\ from <= Len(listeners)
    THEN /\ pc' = "listener"
         /\ flushIdx' = from
         /\ calls' = Append(IF from = 1 THEN <<>> ELSE calls,
                            [listener |-> listeners[from], version |-> _version])
    ELSE /\ pc' = "idle"
         /\ flushIdx' = 0
         /\ calls' = IF from = 1 THEN <<>> ELSE calls

\* _update with the pending flag left as it is.
_update_KeepTimer ==
  /\ _updateTimer' = _updateTimer
  /\ flushLen' = Len(listeners)
  /\ forEachStep(1)

\* _update, up to the first listener's body: the flag is cleared, then forEach begins.
_update ==
  /\ _updateTimer' = NoTimer
  /\ flushLen' = Len(listeners)
  /\ forEachStep(1)

\* The host runs the animation-frame callback it holds, on an empty stack.
Update ==
  /\ pc = "idle"
  /\ rafQueue > 0
  /\ rafQueue' = rafQueue - 1
  /\ _update
  /\ flushListeners' = listeners
  /\ flushCount' = flushCount + 1
  /\ burstWrites' = 0
  /\ burstArms' = 0
  /\ lastOp' = [op |-> "_update"]
  /\ lastRet' = Undefined
  /\ executed' = {}
  /\ syncCalls' = <<>>
  /\ UNCHANGED <<state, _version, listeners, cache, TIME_WINDOW, synchronizer,
                 armCount, callbacks, emitVars>>

\* The running listener returns: forEach goes on with the next index.
ListenerReturn ==
  /\ pc = "listener"
  /\ flushLen' = flushLen
  /\ forEachStep(flushIdx + 1)
  /\ lastOp' = [op |-> "return"]
  /\ lastRet' = Undefined
  /\ executed' = {}
  /\ syncCalls' = <<>>
  /\ UNCHANGED <<storeVars, listeners, TIME_WINDOW, flushListeners, flushCount,
                 callbacks, emitVars>>

\* The running listener throws: the exception leaves forEach and _update.
ListenerThrow ==
  /\ pc = "listener"
  /\ pc' = "idle"
  /\ flushIdx' = 0
  /\ lastOp' = [op |-> "throw"]
  /\ lastRet' = Undefined
  /\ executed' = {}
  /\ syncCalls' = <<>>
  /\ UNCHANGED <<storeVars, listeners, TIME_WINDOW, flushLen, calls,
                 flushListeners, flushCount, callbacks, emitVars>>

\* ------------------------------------------------------------- event bus
\* The array an event type holds, empty when it holds none.
Registered(cbs, eventType) ==
  IF eventType \in DOMAIN cbs THEN cbs[eventType] ELSE <<>>

\* on(eventType, cb): callbacks[eventType] = callbacks[eventType] || []; push
on(cbs, eventType, cb) ==
  [t \in (DOMAIN cbs) \cup {eventType} |->
     IF t = eventType THEN Append(Registered(cbs, eventType), cb) ELSE cbs[t]]

\* off(eventType, cb): indexOf, then splice(index, 1)
off(cbs, eventType, cb) ==
  IF eventType \in DOMAIN cbs
    THEN [cbs EXCEPT ![eventType] = unsubscribe(@, cb)]
    ELSE cbs

\* The rest of every action of the event bus: the store and the listeners stay.
BusFrame ==
  /\ lastRet' = Undefined
  /\ executed' = {}
  /\ syncCalls' = <<>>
  /\ UNCHANGED <<storeVars, listeners, TIME_WINDOW, flushVars>>

On ==
  \E eventType \in EventTypes, cb \in CallbackIds :
    /\ Len(Registered(callbacks, eventType)) < MaxCallbacks
    /\ callbacks' = on(callbacks, eventType, cb)
    /\ lastOp' = [op |-> "on", eventType |-> eventType, cb |-> cb]
    /\ BusFrame
    /\ UNCHANGED emitVars

Off ==
  \E eventType \in EventTypes, cb \in CallbackIds :
    /\ callbacks' = off(callbacks, eventType, cb)
    /\ lastOp' = [op |-> "off", eventType |-> eventType, cb |-> cb]
    /\ BusFrame
    /\ UNCHANGED emitVars

\* for (const cb of callbacks) cb(eventType, eventArgs), from index `from` on:
\* the iterator reads the array's length at every step; past the end (or with
\* no array for the event type) the loop is over and stats.bump runs.
emitStep(eventType, eventArgs, from) ==
  IF from <= Len(Registered(callbacks, eventType))
    THEN /\ epc' = "callback"
         /\ emitIdx' = from
         /\ emitCalls' = Append(IF from = 1 THEN <<>> ELSE emitCalls,
                                [cb |-> callbacks[eventType][from],
                                 eventType |-> eventType, eventArgs |-> eventArgs])
         /\ stats' = stats
    ELSE /\ epc' = "idle"
         /\ emitIdx' = 0
         /\ emitCalls' = IF from = 1 THEN <<>> ELSE emitCalls
         /\ stats' = [stats EXCEPT ![eventType] = @ + 1]

\* emit(eventType, eventArgs), up to the first callback's body.
Emit ==
  \E eventType \in EventTypes, eventArgs \in EventArgs :
    /\ epc = "idle"
    /\ stats["ready"] + stats["update"] < MaxEmits
    /\ emitType' = eventType
    /\ emitArgs' = eventArgs
    /\ emitSnapshot' = Registered(callbacks, eventType)
    /\ emitStep(eventType, eventArgs, 1)
    /\ lastOp' = [op |-> "emit", eventType |-> eventType, eventArgs |-> eventArgs]
    /\ BusFrame
    /\ UNCHANGED callbacks

\* The running callback returns: the loop goes on with the next index.
CallbackReturn ==
  /\ epc = "callback"
  /\ emitStep(emitType, emitArgs, emitIdx + 1)
  /\ lastOp' = [op |-> "callbackReturn"]
  /\ BusFrame
  /\ UNCHANGED <<callbacks, emitType, emitArgs, emitSnapshot>>

\* The running callback throws: the exception leaves the loop and emit.
CallbackThrow ==
  /\ epc = "callback"
  /\ epc' = "idle"
  /\ emitIdx' = 0
  /\ lastOp' = [op |-> "callbackThrow"]
  /\ BusFrame
  /\ UNCHANGED <<callbacks, stats, emitType, emitArgs, emitCalls, emitSnapshot>>

\* ---------------------------------------------------------- specifications
\* The event bus: registrations made between emits, and emits whose
\* callbacks return or throw.
EmitNext ==
  \/ (epc = "idle" /\ On)
  \/ (epc = "idle" /\ Off)
  \/ Emit
  \/ CallbackReturn
  \/ CallbackThrow

EmitSpec == Init /\ [][EmitNext]_vars

\* The attribute store alone: set on every key, and the tick firing.
StoreNext ==
  \/ Set(Keys)
  \/ Update

StoreSpec == Init /\ [][StoreNext]_vars

\* The notification scheduler: writes, registrations, and the flush with
\* listeners that call back into the loader, return or throw.
Next ==
  \/ Set({"lookAhead"})
  \/ Subscribe
  \/ Unsubscribe
  \/ Update
  \/ ListenerReturn
  \/ ListenerThrow

Spec == Init /\ [][Next]_vars

\* The host fires every armed tick, and a listener's body ends (run to completion).
FairSpec ==
  /\ Init
  /\ [][Next]_vars
  /\ WF_vars(Update)
  /\ WF_vars(ListenerReturn \/ ListenerThrow)

\* The scheduler with listeners that write, return or throw but subscribe and
\* unsubscribe nobody from within a flush, under the same fairness.
NotifyNext ==
  \/ Set({"lookAhead"})
  \/ (pc = "idle" /\ Subscribe)
  \/ (pc = "idle" /\ Unsubscribe)
  \/ Update
  \/ ListenerReturn
  \/ ListenerThrow

NotifySpec ==
  /\ Init
  /\ [][NotifyNext]_vars
  /\ WF_vars(Update)
  /\ WF_vars(ListenerReturn \/ ListenerThrow)

\* The scheduler with listeners that write and unsubscribe from within a
\* flush and always return; subscriptions are made between flushes.
ReentrantNext ==
  \/ Set({"lookAhead"})
  \/ (pc = "idle" /\ Subscribe)
  \/ Unsubscribe
  \/ Update
  \/ ListenerReturn

ReentrantSpec == Init /\ [][ReentrantNext]_vars

\* The base loader's connection methods, called between and within flushes
\* of a loader that is written to and subscribed to.
BaseNext ==
  \/ Set({"lookAhead"})
  \/ Subscribe
  \/ Update
  \/ ListenerReturn
  \/ IsOpen
  \/ Connect
  \/ Close
  \/ GetBufferRange

BaseSpec == Init /\ [][BaseNext]_vars

\* Metadata arriving at a loader that has been sought and whose stream
\* settings have been edited: metadata with and without bounds and streams.
MetaNext ==
  \/ SetMetadata(Times \cup {Undefined}, Times \cup {Undefined},
                 {"missing", "empty", "populated"})
  \/ Seek(SeekInputs)
  \/ UpdateStreamSettings({[n \in {"b"} |-> 2]})

MetaSpec == Init /\ [][MetaNext]_vars

\* Seeking against the log bounds: metadata arriving, seeks, the configured
\* time window changing, and reads of the two bounds.
SeekNext ==
  \/ SetMetadata(Times \cup {Undefined}, Times \cup {Undefined}, {"missing"})
  \/ Seek(SeekInputs)
  \/ SetXVIZConfig
  \/ GetLogStartTime
  \/ GetLogEndTime

SeekSpec == Init /\ [][SeekNext]_vars

\* The five memoized reads over a loader whose every declared input changes:
\* streams and synchronizer set by the connector, metadata, seeks, look-ahead
\* and stream settings.
SelNext ==
  \/ Set({"logSynchronizer", "streams"})
  \/ SetMetadata({Num(1)}, {Num(2)}, {"missing"})
  \/ Seek({Num(2)})
  \/ SetLookAhead({Num(1)})
  \/ UpdateStreamSettings({[n \in {"a"} |-> 1]})
  \/ GetStreams
  \/ GetLogStartTime
  \/ GetLogEndTime
  \/ GetCurrentFrame
  \/ GetTimeSeries

\* A loader constructed under a configuration with no time window.
SelInit == Init /\ TIME_WINDOW = 0

SelSpec == SelInit /\ [][SelNext]_vars

\* Freshness of getStreams, getLogStartTime and getLogEndTime: every write the
\* loader offers, and the configured time window changing.
StaleNext ==
  \/ Set({"streams"})
  \/ SetMetadata({Num(0), Num(1)}, {Num(2)}, {"missing", "populated"})
  \/ Seek({Num(1), Num(2)})
  \/ SetLookAhead(LookAheads)
  \/ UpdateStreamSettings({[n \in {"a"} |-> 0], [n \in {"b"} |-> 1]})
  \/ SetXVIZConfig
  \/ GetStreams
  \/ GetLogStartTime
  \/ GetLogEndTime

StaleSpec == Init /\ [][StaleNext]_vars

\* Frame retrieval: the synchronizer attached, seeks (also to a non-number),
\* look-ahead, stream settings and streams changing, and getCurrentFrame.
FrameNext ==
  \/ Set({"logSynchronizer", "streams"})
  \/ Seek({Num(1), Num(2), NaN})
  \/ SetLookAhead(LookAheads)
  \/ UpdateStreamSettings({[n \in {"a"} |-> 0], [n \in {"a"} |-> 1]})
  \/ GetCurrentFrame

FrameSpec == Init /\ [][FrameNext]_vars

\* Stream settings: merges, metadata that brings its own settings, and the
\* attribute set or cleared directly.
SettingsNext ==
  \/ UpdateStreamSettings(SettingsMaps)
  \/ SetMetadata({Num(0)}, {Num(1)}, {"missing", "empty", "populated"})
  \/ Set({"streamSettings"})

SettingsSpec == Init /\ [][SettingsNext]_vars

\* ------------------------------------------------------------------ claims
\* C1: a burst of N >= 1 state-changing sets with no tick firing in between
\* arms exactly one tick and is followed by exactly one flush, which passes
\* the listeners the generation reached after the last write of the burst;
\* never is more than one tick pending.
C1_OneFlushPerBurst ==
  /\ [](/\ rafQueue <= 1
        /\ rafQueue = (IF burstWrites >= 1 THEN 1 ELSE 0)
        /\ burstArms = rafQueue
        /\ armCount = flushCount + rafQueue
        /\ (burstWrites = 0 =>
              \A i \in DOMAIN calls : calls[i].version = _version))
  /\ [][flushCount' # flushCount =>
          /\ burstWrites >= 1
          /\ burstArms = 1
          /\ rafQueue' = 0
          /\ flushCount' = flushCount + 1
          /\ \A i \in DOMAIN calls' : calls'[i].version = _version]_vars

\* C1 witness: the first flush, after a burst of two writes that armed one
\* tick, invokes a listener with generation 2.
C1_Witness ==
  /\ flushCount = 1
  /\ armCount = 1
  /\ burstWrites = 0
  /\ pc = "listener"
  /\ Len(calls) = 1
  /\ calls[1].version = 2

\* C2: a set whose value equals the stored value changes neither the state,
\* the generation nor the pending tick; a set whose value differs stores the
\* value and increases the generation by exactly 1; the generation never
\* decreases.
C2_SetChangeDetection ==
  /\ [][lastOp'.op = "set" =>
          IF StrictEq(state[lastOp'.key], lastOp'.value)
            THEN UNCHANGED <<state, _version, _updateTimer, rafQueue, armCount>>
            ELSE /\ state' = [state EXCEPT ![lastOp'.key] = lastOp'.value]
                 /\ _version' = _version + 1]_vars
  /\ [][_version' >= _version]_vars

\* C2 witness: a set made after the latest flush that armed no tick, its value
\* being the stored one.
C2_Witness ==
  /\ lastOp.op = "set"
  /\ _version >= 1
  /\ flushCount >= 1
  /\ rafQueue = 0
  /\ _updateTimer = NoTimer
  /\ StrictEq(state[lastOp.key], lastOp.value)

\* C3: when a tick fires the pending flag is cleared before the first listener
\* runs; a state-changing set made by a listener during the flush arms a new
\* tick without touching the flush in progress, the flag is set when that
\* flush ends, and a later flush delivers a generation at least that new.
C3_WriteDuringFlush ==
  /\ [][flushCount' # flushCount => _updateTimer' = NoTimer /\ rafQueue' = 0]_vars
  /\ [][pc = "listener" /\ _version' > _version =>
          /\ _updateTimer' = Handle
          /\ rafQueue' = 1
          /\ UNCHANGED <<pc, flushLen, flushIdx, calls, flushCount>>]_vars
  /\ [][pc = "listener" /\ pc' = "idle" /\ burstWrites >= 1 =>
          _updateTimer' = Handle /\ rafQueue' = 1]_vars
  /\ \A g \in 1..MaxVersion :
       (pc = "listener" /\ burstWrites >= 1 /\ _version = g)
         ~> (/\ lastOp.op = "_update"
             /\ _version >= g
             /\ \A i \in DOMAIN calls : calls[i].version >= g)

\* C3 witness: a second flush invokes a listener with the generation written
\* by a listener during the first flush.
C3_Witness ==
  /\ flushCount = 2
  /\ armCount = 2
  /\ _version = 2
  /\ lastOp.op = "_update"
  /\ Len(calls) = 1
  /\ calls[1].version = 2

\* A flush has ended in which every subscribed listener was invoked with a
\* generation of at least g.
FlushNotifiedAll(g) ==
  /\ pc = "idle"
  /\ lastOp.op \in {"_update", "return", "throw"}
  /\ \A i \in DOMAIN flushListeners :
       \E j \in DOMAIN calls :
         calls[j].listener = flushListeners[i] /\ calls[j].version >= g

\* C4: with every armed tick firing, every state-changing set is eventually
\* followed by a flush in which every subscribed listener is invoked with a
\* generation at least the one the write produced.
C4_EveryWriteNotified ==
  \A g \in 1..MaxVersion :
    (_version = g /\ burstWrites >= 1) ~> FlushNotifiedAll(g)

\* What getLogStartTime() and getLogEndTime() return in the current state.
LogStart == getLogStartTime(Store).ret
LogEnd == getLogEndTime(Store).ret

\* seek leaves every attribute other than timestamp as it was.
SeekWritesOnlyTimestamp ==
  \A k \in Keys \ {"timestamp"} : state'[k] = state[k]

\* C7 as claimed: with metadata present and both log bounds s, e finite, seek(t)
\* leaves timestamp s if t < s, e if t > e, and t if s <= t <= e; with metadata
\* absent or a bound not finite it leaves t; no other attribute is written.
C7_SeekClampsAsClaimed ==
  [][lastOp'.op = "seek" =>
       LET t == lastOp'.timestamp
           s == LogStart
           e == LogEnd
           ts == state'["timestamp"]
       IN /\ SeekWritesOnlyTimestamp
          /\ IF Truthy(state["metadata"]) /\ IsFinite(s) /\ IsFinite(e)
               THEN t.kind = "number" =>
                      /\ t.num < s.num => ts = s
                      /\ t.num > e.num => ts = e
                      /\ (s.num <= t.num /\ t.num <= e.num) => ts = t
               ELSE ts = t]_vars

\* C7 amended: the three cases hold when s <= e; when s > e (a log shorter
\* than the time window) seek leaves timestamp s for every number t.
C7_SeekClamps ==
  [][lastOp'.op = "seek" =>
       LET t == lastOp'.timestamp
           s == LogStart
           e == LogEnd
           ts == state'["timestamp"]
       IN /\ SeekWritesOnlyTimestamp
          /\ IF Truthy(state["metadata"]) /\ IsFinite(s) /\ IsFinite(e)
               THEN t.kind = "number" =>
                      IF s.num <= e.num
                        THEN /\ t.num < s.num => ts = s
                             /\ t.num > e.num => ts = e
                             /\ (s.num <= t.num /\ t.num <= e.num) => ts = t
                        ELSE ts = s
               ELSE ts = t]_vars

\* C7 witness: a seek beyond the end of a log whose start bound exceeds its
\* end bound has left the timestamp at the start bound.
C7_Witness ==
  /\ lastOp.op = "seek"
  /\ Truthy(state["metadata"])
  /\ IsFinite(LogStart) /\ IsFinite(LogEnd)
  /\ lastOp.timestamp.kind = "number"
  /\ LogStart.num > LogEnd.num
  /\ lastOp.timestamp.num > LogStart.num
  /\ state["timestamp"] = LogStart

\* C8: for metadata with numeric start_time (0 included) and end_time and
\* TIME_WINDOW = w, getLogStartTime() computes start_time + w and
\* getLogEndTime() computes end_time (whenever the latest call ran the
\* combinator, what it produced is that value).
C8_LogBounds ==
  /\ Truthy(state["metadata"])
  /\ IsFinite(state["metadata"].start_time)
  /\ IsFinite(state["metadata"].end_time)
  => /\ "getLogStartTime" \in executed =>
          cache["getLogStartTime"].output
            = Num(state["metadata"].start_time.num + TIME_WINDOW)
     /\ "getLogEndTime" \in executed =>
          cache["getLogEndTime"].output = state["metadata"].end_time

\* The declared inputs of a selector, evaluated in the current state.
DeclaredInputs(name) ==
  CASE name = "getStreams" -> <<state["streamSettings"], state["streams"]>>
    [] name = "getLogStartTime" -> <<state["metadata"]>>
    [] name = "getLogEndTime" -> <<state["metadata"]>>
    [] name = "getCurrentFrame" ->
         <<state["logSynchronizer"], state["streamSettings"], state["timestamp"],
           state["lookAhead"], getStreams(Store).ret>>
    [] name = "getTimeSeries" -> <<state["metadata"], getStreams(Store).ret>>

\* The selector was never invoked, or a declared input differs from the one
\* its previous invocation saw.
InputsChanged(name) ==
  LET in == DeclaredInputs(name)
      prev == cache[name].inputs
  IN \/ ~cache[name].valid
     \/ Len(prev) # Len(in)
     \/ \E i \in 1..Len(in) : ~StrictEq(prev[i], in[i])

\* C5: a memoized read runs its combinator if and only if it is its first
\* invocation or a declared input differs from the previous invocation;
\* otherwise it returns the identical cached output, and getCurrentFrame
\* makes no call on the synchronizer.
C5_Memoized ==
  [][\A name \in SelectorNames :
       lastOp'.op = name =>
         /\ (name \in executed') <=> InputsChanged(name)
         /\ InputsChanged(name) => cache'[name].output = lastRet'
         /\ ~InputsChanged(name) =>
              /\ lastRet' = cache[name].output
              /\ cache'[name] = cache[name]
              /\ name = "getCurrentFrame" =>
                   syncCalls' = <<>> /\ synchronizer' = synchronizer]_vars

\* C5 witness: getCurrentFrame returned its cached frame, running no
\* combinator and calling nothing on the synchronizer.
C5_Witness ==
  /\ lastOp.op = "getCurrentFrame"
  /\ executed = {}
  /\ syncCalls = <<>>
  /\ lastRet.kind = "object"
  /\ lastRet = cache["getCurrentFrame"].output

\* Two values with the same content (objects compared by their properties).
SameContent(a, b) ==
  /\ a.kind = b.kind
  /\ a.kind = "number" => a.num = b.num
  /\ a.kind = "object" => a.map = b.map

\* C6: getStreams(), getLogStartTime() and getLogEndTime() return what their
\* combinators produce on the current state and configuration, after any
\* writes and any change of TIME_WINDOW.
C6_NeverStale ==
  /\ lastOp.op = "getStreams" =>
       SameContent(lastRet, getStreamsCombinator(Store, state["streamSettings"],
                                                 state["streams"]))
  /\ lastOp.op = "getLogStartTime" =>
       SameContent(lastRet, getLogStartTimeCombinator(state["metadata"]))
  /\ lastOp.op = "getLogEndTime" =>
       SameContent(lastRet, getLogEndTimeCombinator(state["metadata"]))

\* C9: getCurrentFrame() returns null and calls nothing on the synchronizer
\* when the synchronizer is absent or the timestamp is not finite; otherwise
\* a recomputation calls setTime(timestamp), setLookAheadTimeOffset(lookAhead)
\* and getCurrentFrame(streamSettings) in that order and returns that frame,
\* and a cached frame is one read after the current values were pushed.
C9_FramePushOrder ==
  [][lastOp'.op = "getCurrentFrame" =>
       LET logSynchronizer == state["logSynchronizer"]
           timestamp == state["timestamp"]
           lookAhead == state["lookAhead"]
           streamSettings == state["streamSettings"]
       IN IF ~Truthy(logSynchronizer) \/ ~IsFinite(timestamp)
            THEN /\ lastRet' = Null
                 /\ syncCalls' = <<>>
                 /\ synchronizer' = synchronizer
            ELSE /\ lastRet'.kind = "object"
                 /\ lastRet'.time = timestamp
                 /\ lastRet'.lookAhead = lookAhead
                 /\ lastRet'.settings = streamSettings
                 /\ IF "getCurrentFrame" \in executed'
                      THEN syncCalls' =
                             <<[method |-> "setTime", arg |-> timestamp],
                               [method |-> "setLookAheadTimeOffset", arg |-> lookAhead],
                               [method |-> "getCurrentFrame", arg |-> streamSettings]>>
                      ELSE syncCalls' = <<>>]_vars

\* C9 witness: a recomputation pushed a time and a look-ahead and returned
\* the synchronizer's frame.
C9_Witness ==
  /\ lastOp.op = "getCurrentFrame"
  /\ Len(syncCalls) = 3
  /\ state["lookAhead"] = Num(1)
  /\ lastRet.kind = "object"
  /\ lastRet.lookAhead = Num(1)

\* C10: updateStreamSettings(U) on stream settings S (possibly absent) leaves
\* a mapping with the keys of S and of U, U's value on U's keys and S's value
\* on the others, and changes no other attribute.
C10_SettingsMerge ==
  [][lastOp'.op = "updateStreamSettings" =>
       LET S == OwnProps(state["streamSettings"])
           U == lastOp'.settings
           after == state'["streamSettings"]
       IN /\ after.kind = "object"
          /\ DOMAIN after.map = (DOMAIN S) \cup (DOMAIN U)
          /\ \A n \in DOMAIN after.map :
               after.map[n] = IF n \in DOMAIN U THEN U[n] ELSE S[n]
          /\ \A k \in Keys \ {"streamSettings"} : state'[k] = state[k]]_vars

\* C10 witness: updateStreamSettings({a: 1}) then updateStreamSettings({b: 2})
\* has left {a: 1, b: 2}.
C10_Witness ==
  /\ lastOp.op = "updateStreamSettings"
  /\ lastOp.settings = [n \in {"b"} |-> 2]
  /\ _version = 2
  /\ state["streamSettings"].kind = "object"
  /\ state["streamSettings"].map = [n \in {"a", "b"} |-> IF n = "a" THEN 1 ELSE 2]

\* The pending flag and the host's queue agree: the flag is clear exactly
\* when no tick is armed, so a state-changing set arms one.
FlagAgreesWithQueue ==
  (_updateTimer = NoTimer) <=> (rafQueue = 0)

\* C11: when a listener throws during a flush the pending flag stays
\* consistent (clear unless a listener's write armed a new tick) and every
\* other listener subscribed when the tick fired is still invoked in that
\* flush.
C11_ThrowIsolated ==
  [][lastOp'.op = "throw" =>
       /\ FlagAgreesWithQueue'
       /\ Len(calls') = Len(flushListeners')
       /\ \A i \in 1..Len(calls') : calls'[i].listener = flushListeners'[i]]_vars

\* C12: when a callback throws during emit(eventType, payload), every other
\* callback registered for that event type is still invoked in that emit.
C12_CallbackThrowIsolated ==
  [][lastOp'.op = "callbackThrow" =>
       /\ Len(emitCalls') = Len(emitSnapshot')
       /\ \A i \in 1..Len(emitCalls') : emitCalls'[i].cb = emitSnapshot'[i]]_vars

\* The first occurrence of cb deleted from list, which stays when it has none.
DeleteFirst(list, cb) ==
  IF \E i \in 1..Len(list) : list[i] = cb
    THEN LET k == CHOOSE i \in 1..Len(list) :
                    list[i] = cb /\ \A j \in 1..(i - 1) : list[j] # cb
         IN [i \in 1..(Len(list) - 1) |-> IF i < k THEN list[i] ELSE list[i + 1]]
    ELSE list

\* C13: on(eventType, cb) appends cb to the event type's list and off deletes
\* its first occurrence (changing nothing for an unregistered callback or an
\* unknown event type), other event types' lists staying; an emit invokes
\* exactly that list's callbacks, in order, each with (eventType, payload).
C13_EmitInvokesRegistered ==
  [][/\ lastOp'.op = "on" =>
          \A t \in EventTypes :
            Registered(callbacks', t) =
              IF t = lastOp'.eventType
                THEN Append(Registered(callbacks, t), lastOp'.cb)
                ELSE Registered(callbacks, t)
     /\ lastOp'.op = "off" =>
          \A t \in EventTypes :
            Registered(callbacks', t) =
              IF t = lastOp'.eventType
                THEN DeleteFirst(Registered(callbacks, t), lastOp'.cb)
                ELSE Registered(callbacks, t)
     /\ (lastOp'.op \in {"emit", "callbackReturn", "callbackThrow"} /\ epc' = "idle") =>
          emitCalls' = [i \in 1..Len(Registered(callbacks, emitType')) |->
                          [cb |-> Registered(callbacks, emitType')[i],
                           eventType |-> emitType', eventArgs |-> emitArgs']]]_vars

\* C14: with registrations changing only between flushes, subscribe appends,
\* unsubscribe(x) deletes the first registration of x (changing nothing when x
\* is not registered), and a flush invokes the registered listeners in
\* insertion order, one invocation per registration.
C14_FlushInvokesRegistered ==
  [][/\ lastOp'.op = "subscribe" =>
          listeners' = Append(listeners, lastOp'.instance)
     /\ lastOp'.op = "unsubscribe" =>
          listeners' = DeleteFirst(listeners, lastOp'.instance)
     /\ (lastOp'.op \in {"_update", "return", "throw"} /\ pc' = "idle") =>
          /\ Len(calls') = Len(listeners)
          /\ \A i \in 1..Len(calls') : calls'[i].listener = listeners[i]]_vars

\* C18: within one flush every listener is invoked with the same generation,
\* the one current when the tick fired, also after a listener of that flush
\* has made a state-changing set.
C18_OneGenerationPerFlush ==
  \A i \in 1..Len(calls) : calls[i].version = calls[1].version

\* C20: when a flush ends in which listeners unsubscribed listeners, every
\* listener registered (once) when the tick fired and still registered has
\* been invoked exactly once in that flush.
C20_EveryRegistrationOnce ==
  [][(lastOp'.op \in {"_update", "return"} /\ pc' = "idle"
      /\ \A i, j \in 1..Len(flushListeners') :
           flushListeners'[i] = flushListeners'[j] => i = j) =>
       \A x \in ListenerIds :
         ((\E i \in 1..Len(flushListeners') : flushListeners'[i] = x)
          /\ (\E i \in 1..Len(listeners') : listeners'[i] = x)) =>
           Cardinality({i \in 1..Len(calls') : calls'[i].listener = x}) = 1]_vars

\* C15: getStreams() returns the raw streams themselves when streamSettings
\* or streams is absent; otherwise exactly the entries of streams whose name
\* has a truthy entry in streamSettings.
C15_VisibleStreams ==
  [][lastOp'.op = "getStreams" =>
       LET streamSettings == state["streamSettings"]
           streams == state["streams"]
       IN IF ~Truthy(streamSettings) \/ ~Truthy(streams)
            THEN lastRet' = streams
            ELSE /\ lastRet'.kind = "object"
                 /\ DOMAIN lastRet'.map =
                      {n \in DOMAIN streams.map :
                         /\ n \in DOMAIN streamSettings.map
                         /\ streamSettings.map[n] # 0}
                 /\ \A n \in DOMAIN lastRet'.map :
                      lastRet'.map[n] = streams.map[n]]_vars

\* C15 witness: with streams a and b, a disabled and b enabled, getStreams()
\* has returned b alone.
C15_Witness ==
  /\ lastOp.op = "getStreams"
  /\ Truthy(state["streams"]) /\ DOMAIN state["streams"].map = {"a", "b"}
  /\ Truthy(state["streamSettings"])
  /\ DOMAIN state["streamSettings"].map = {"a", "b"}
  /\ state["streamSettings"].map["a"] = 0
  /\ lastRet.kind = "object"
  /\ DOMAIN lastRet.map = {"b"}

\* C16: isOpen, connect, close and getBufferRange on the base loader each
\* signal 'not implemented' to the caller and leave the store state, the
\* generation, the listener list and the pending flag as they were.
C16_AbstractNotImplemented ==
  [][lastOp'.op \in {"isOpen", "connect", "close", "getBufferRange"} =>
       /\ lastRet' = NotImplemented
       /\ UNCHANGED <<state, _version, listeners, _updateTimer>>]_vars

\* t clamped into [s, e]: s below it, e above it, t inside it; t itself when
\* a bound is not finite.
ClampInto(t, s, e) ==
  IF IsFinite(s) /\ IsFinite(e)
    THEN IF t.num < s.num THEN s ELSE IF t.num > e.num THEN e ELSE t
    ELSE t

\* What _setMetadata(m) leaves apart from the timestamp: metadata is m,
\* streamSettings is m.streams itself when that is a non-empty mapping and is
\* unchanged otherwise, and the other attributes stay.
MetadataWritten(m) ==
  /\ state'["metadata"] = m
  /\ state'["streamSettings"] =
       IF Truthy(m.streams) /\ DOMAIN m.streams.map # {}
         THEN m.streams
         ELSE state["streamSettings"]
  /\ \A k \in Keys \ {"metadata", "streamSettings", "timestamp"} :
       state'[k] = state[k]

\* The timestamp _setMetadata(m) re-seeks to: the previous one if finite,
\* else m.start_time.
ReseekTarget(m) ==
  IF IsFinite(state["timestamp"]) THEN state["timestamp"] ELSE m.start_time

\* C17 as claimed: after _setMetadata(m) the metadata and stream settings are
\* as described and the timestamp is the re-seek target clamped into the new
\* log bounds when that target is finite, and unchanged otherwise.
C17_SetMetadataAsClaimed ==
  [][lastOp'.op = "_setMetadata" =>
       LET m == lastOp'.metadata
           t == ReseekTarget(m)
       IN /\ MetadataWritten(m)
          /\ state'["timestamp"] =
               IF IsFinite(t) THEN ClampInto(t, LogStart', LogEnd')
                              ELSE state["timestamp"]]_vars

\* C17 amended: the same, except that when the new start bound exceeds the
\* new end bound a finite re-seek target leaves the timestamp at the start
\* bound.
C17_SetMetadata ==
  [][lastOp'.op = "_setMetadata" =>
       LET m == lastOp'.metadata
           t == ReseekTarget(m)
           s == LogStart'
           e == LogEnd'
       IN /\ MetadataWritten(m)
          /\ state'["timestamp"] =
               IF ~IsFinite(t) THEN state["timestamp"]
               ELSE IF IsFinite(s) /\ IsFinite(e) /\ s.num > e.num THEN s
               ELSE ClampInto(t, s, e)]_vars

\* C17 witness: metadata with streams arrived at a loader holding other
\* stream settings and a timestamp past the new end bound: the settings are
\* the metadata's and the timestamp is the end bound.
C17_Witness ==
  /\ lastOp.op = "_setMetadata"
  /\ Truthy(lastOp.metadata.streams)
  /\ state["streamSettings"] = lastOp.metadata.streams
  /\ "b" \notin DOMAIN state["streamSettings"].map
  /\ IsFinite(LogStart) /\ IsFinite(LogEnd)
  /\ LogStart.num < LogEnd.num
  /\ state["timestamp"] = LogEnd
  /\ _version >= 4

\* Metadata is present, both log bounds are finite and so is the timestamp.
BoundsAndTimestampFinite ==
  /\ Truthy(state["metadata"])
  /\ IsFinite(LogStart) /\ IsFinite(LogEnd)
  /\ IsFinite(state["timestamp"])

\* C19 as claimed: whenever metadata is present and the bounds and the
\* timestamp are finite, getLogStartTime() <= timestamp <= getLogEndTime().
C19_TimestampWithinBoundsAsClaimed ==
  BoundsAndTimestampFinite =>
    /\ LogStart.num <= state["timestamp"].num
    /\ state["timestamp"].num <= LogEnd.num

\* C19 amended: the timestamp lies within the bounds when
\* getLogStartTime() <= getLogEndTime(), and equals getLogStartTime() when
\* the start bound exceeds the end bound.
C19_TimestampWithinBounds ==
  BoundsAndTimestampFinite =>
    IF LogStart.num <= LogEnd.num
      THEN /\ LogStart.num <= state["timestamp"].num
           /\ state["timestamp"].num <= LogEnd.num
      ELSE state["timestamp"] = LogStart

\* C19 witness: metadata arrived after a seek past its end and left the
\* timestamp on the end bound, above the start bound.
C19_Witness ==
  /\ lastOp.op = "_setMetadata"
  /\ BoundsAndTimestampFinite
  /\ LogStart.num < LogEnd.num
  /\ state["timestamp"] = LogEnd
  /\ _version = 3

====
